---- MODULE Spec2Model ----
(***************************************************************************)
(* Model of the four measurement scripts of gre-1dnav-analysis             *)
(* (compute_cnr, compute_gm_snr, compute_wm_std, compute_ghosting): the    *)
(* masked slice-wise reduction of a volume and the read-modify-write of    *)
(* the results ledger (a CSV file); and of create_ghosting_mask.           *)
(*                                                                         *)
(* Spec     : runs of one measurement script, one after the other          *)
(* SpecRace : two invocations of one script inside write_csv together      *)
(* SpecMask : one run of create_ghosting_mask, statement by statement      *)
(*                                                                         *)
(* Numbers.  A float is one of nan, +inf, -inf or a finite value; a finite *)
(* value is kept as an exact fraction n/d in lowest terms (d > 0).  The    *)
(* voxel intensities the model draws are chosen so that every standard     *)
(* deviation is rational, so no rounding of the arithmetic is needed; the  *)
(* only rounding modelled is the one format_value does (6 decimals).       *)
(*                                                                         *)
(* Text.  The text of a CSV cell is a sequence of characters (one-letter   *)
(* strings).  An identifier and a header cell are never parsed by the      *)
(* code; an identifier is kept as one string, a header cell as a           *)
(* one-element sequence holding the column name.                           *)
(***************************************************************************)
EXTENDS Integers, Sequences, FiniteSets, TLC

\* ------------------------------------------------------------------ floats

RECURSIVE GCD(_, _)
GCD(a, b) == IF b = 0 THEN a ELSE GCD(b, a % b)

AbsInt(i) == IF i < 0 THEN -i ELSE i

NaN == [k |-> "nan", n |-> 0, d |-> 1]

Inf(s) == [k |-> "inf", n |-> s, d |-> 1]

\* the finite float n/d, d # 0, in lowest terms with a positive denominator
Fin(n, d) ==
    LET g == GCD(AbsInt(n), AbsInt(d))
        s == IF d < 0 THEN -1 ELSE 1
    IN  [k |-> "fin", n |-> (s * n) \div g, d |-> (s * d) \div g]

\* the float -0.0, which float("-0.000000") gives: the zero whose sign bit is
\* set.  (No arithmetic of the model produces it; in sums and comparisons
\* it is 0.)
NegZero == [k |-> "fin", n |-> 0, d |-> -1]

IsNaN(x) == x.k = "nan"

IsInf(x) == x.k = "inf"

\* the sign bit of a float that is not nan
SignBit(x) == x.n < 0 \/ (x.n = 0 /\ x.d < 0)

\* sign of a float that is not nan: -1, 0 or 1
Sign(x) == IF x.n < 0 THEN -1 ELSE IF x.n > 0 THEN 1 ELSE 0

\* IEEE-754 addition (numpy float64 "+")
FAdd(x, y) ==
    IF IsNaN(x) \/ IsNaN(y) THEN NaN
    ELSE IF IsInf(x) /\ IsInf(y) THEN (IF x.n = y.n THEN x ELSE NaN)
    ELSE IF IsInf(x) THEN x
    ELSE IF IsInf(y) THEN y
    ELSE Fin(x.n * y.d + y.n * x.d, x.d * y.d)

FNeg(x) ==
    IF IsNaN(x) THEN NaN
    ELSE IF IsInf(x) THEN Inf(-x.n)
    ELSE IF x.n = 0 THEN (IF SignBit(x) THEN Fin(0, 1) ELSE NegZero)
    ELSE Fin(-x.n, x.d)

FSub(x, y) == FAdd(x, FNeg(y))

\* Python abs() of a float
FAbs(x) ==
    IF IsNaN(x) THEN NaN
    ELSE IF IsInf(x) THEN Inf(1)
    ELSE Fin(AbsInt(x.n), x.d)

FMul(x, y) ==
    IF IsNaN(x) \/ IsNaN(y) THEN NaN
    ELSE IF IsInf(x) \/ IsInf(y)
         THEN (IF Sign(x) * Sign(y) = 0 THEN NaN ELSE Inf(Sign(x) * Sign(y)))
    ELSE Fin(x.n * y.n, x.d * y.d)

\* numpy float64 division: x/0 is +-inf (a RuntimeWarning, no exception) when
\* x # 0, and nan when x = 0; nothing is raised.
FDiv(x, y) ==
    IF IsNaN(x) \/ IsNaN(y) THEN NaN
    ELSE IF IsInf(x) THEN (IF IsInf(y) THEN NaN
                           ELSE Inf(x.n * (IF y.n < 0 THEN -1 ELSE 1)))
    ELSE IF IsInf(y) THEN Fin(0, 1)
    ELSE IF y.n = 0 THEN (IF x.n = 0 THEN NaN ELSE Inf(Sign(x)))
    ELSE Fin(x.n * y.d, x.d * y.n)

\* x < y for floats that are not nan
FLess(x, y) ==
    IF IsInf(x) THEN x.n = -1 /\ ~(IsInf(y) /\ y.n = -1)
    ELSE IF IsInf(y) THEN y.n = 1
    ELSE x.n * y.d < y.n * x.d

\* floor of the square root of a natural number
ISqrt(m) == CHOOSE r \in 0..m : r * r <= m /\ (r + 1) * (r + 1) > m

\* square root of a finite float >= 0 (exact when n and d are squares)
FSqrt(x) == IF IsNaN(x) THEN NaN ELSE Fin(ISqrt(x.n), ISqrt(x.d))

\* ------------------------------------------------------- Metric Reducer

\* A voxel of a slice: its intensity and the value there of each mask (white
\* matter, gray matter, ghosting).
Vx(val, wm, gm, gh) == [val |-> val, wm |-> wm, gm |-> gm, gh |-> gh]

\* np.ma.masked_array(anat_data, mask=(mask_data == 0))[:, :, z]: the
\* intensities of the voxels of slice sl that mask m selects (mask # 0)
Masked(sl, m) ==
    LET sel == SelectSeq(sl, LAMBDA vx : vx[m] # 0)
    IN  [i \in 1..Len(sel) |-> sel[i].val]

RECURSIVE SumInt(_)
SumInt(s) == IF s = <<>> THEN 0 ELSE Head(s) + SumInt(Tail(s))

RECURSIVE SumF(_)
SumF(s) == IF s = <<>> THEN Fin(0, 1) ELSE FAdd(Head(s), SumF(Tail(s)))

\* Variant of MaMean: an empty selection gives 0 (the data under the mask)
\* instead of nan.
MaMean_ZeroOnEmpty(vals) ==
    IF vals = <<>> THEN Fin(0, 1) ELSE Fin(SumInt(vals), Len(vals))

\* slice_wise[z] = np.ma.mean(...): the mean of the selected voxels; of an
\* empty selection np.ma.mean is `masked`, stored in the float array as nan
MaMean(vals) ==
    IF vals = <<>> THEN NaN ELSE Fin(SumInt(vals), Len(vals))

\* slice_wise[z] = np.ma.std(...): population standard deviation (ddof=0)
MaStd(vals) ==
    IF vals = <<>> THEN NaN
    ELSE LET mu  == MaMean(vals)
             dev == [i \in 1..Len(vals) |->
                        FMul(FSub(Fin(vals[i], 1), mu), FSub(Fin(vals[i], 1), mu))]
         IN  FSqrt(FDiv(SumF(dev), Fin(Len(vals), 1)))

\* the entries of a float array that are not nan
Defined(arr) == SelectSeq(arr, LAMBDA x : ~IsNaN(x))

\* np.nanmean: mean of the non-nan entries; nan (and a RuntimeWarning) when
\* there is none, also for an array of size 0
NanMean(arr) ==
    LET def == Defined(arr)
    IN  IF def = <<>> THEN NaN ELSE FDiv(SumF(def), Fin(Len(def), 1))

RECURSIVE Insert(_, _)
Insert(x, s) ==
    IF s = <<>> THEN <<x>>
    ELSE IF FLess(Head(s), x) THEN <<Head(s)>> \o Insert(x, Tail(s))
    ELSE <<x>> \o s

RECURSIVE SortF(_)
SortF(s) == IF s = <<>> THEN <<>> ELSE Insert(Head(s), SortF(Tail(s)))

\* np.nanmedian: median of the non-nan entries (mean of the two middle ones
\* for an even count); nan when there is none, also for an array of size 0
NanMedian(arr) ==
    LET srt == SortF(Defined(arr))
        m   == Len(srt)
    IN  IF m = 0 THEN NaN
        ELSE IF m % 2 = 1 THEN srt[(m + 1) \div 2]
        ELSE FDiv(FAdd(srt[m \div 2], srt[m \div 2 + 1]), Fin(2, 1))

\* the largest of m and the entries of s
RECURSIVE MaxF(_, _)
MaxF(m, s) ==
    IF s = <<>> THEN m
    ELSE MaxF(IF FLess(m, Head(s)) THEN Head(s) ELSE m, Tail(s))

\* np.nanmax: raises ValueError on an array of size 0 ("zero-size array to
\* reduction operation fmax which has no identity"); nan (and a
\* RuntimeWarning) when every entry is nan; else the largest non-nan entry
NanMax(arr) ==
    IF arr = <<>> THEN [raised |-> TRUE, x |-> NaN]
    ELSE IF Defined(arr) = <<>> THEN [raised |-> FALSE, x |-> NaN]
    ELSE [raised |-> FALSE, x |-> MaxF(Head(Defined(arr)), Tail(Defined(arr)))]

\* compute_cnr.main: slice-wise |wm_mean - gm_mean| / wm_std, then
\* (np.nanmean, np.nanmedian)
SliceCnr(sl) ==
    FDiv(FAbs(FSub(MaMean(Masked(sl, "wm")), MaMean(Masked(sl, "gm")))),
         MaStd(Masked(sl, "wm")))

ReduceCnr(vol) ==
    LET slice_wise_cnr == [z \in 1..Len(vol) |-> SliceCnr(vol[z])]
    IN  [raised |-> FALSE,
         a |-> NanMean(slice_wise_cnr), b |-> NanMedian(slice_wise_cnr)]

\* compute_gm_snr.main: slice-wise gm_mean / gm_std, then (nanmean, nanmedian)
SliceSnr(sl) == FDiv(MaMean(Masked(sl, "gm")), MaStd(Masked(sl, "gm")))

ReduceGmSnr(vol) ==
    LET slice_wise_snr == [z \in 1..Len(vol) |-> SliceSnr(vol[z])]
    IN  [raised |-> FALSE,
         a |-> NanMean(slice_wise_snr), b |-> NanMedian(slice_wise_snr)]

\* compute_wm_std.main: slice-wise wm std, then (np.nanmax, np.nanmean)
ReduceWmStd(vol) ==
    LET slice_wise_std == [z \in 1..Len(vol) |-> MaStd(Masked(vol[z], "wm"))]
        mx == NanMax(slice_wise_std)
    IN  [raised |-> mx.raised, a |-> mx.x, b |-> NanMean(slice_wise_std)]

\* compute_ghosting: slice-wise mean in the ghosting mask, then
\* (np.nanmax, np.nanmean)
ReduceGhosting(vol) ==
    LET slice_wise_mean == [z \in 1..Len(vol) |-> MaMean(Masked(vol[z], "gh"))]
        mx == NanMax(slice_wise_mean)
    IN  [raised |-> mx.raised, a |-> mx.x, b |-> NanMean(slice_wise_mean)]

\* ------------------------------------------------------------ cell text

DigitChars == <<"0", "1", "2", "3", "4", "5", "6", "7", "8", "9">>

Digits == {DigitChars[i] : i \in 1..10}

IsDigit(c) == c \in Digits

DigitVal == [c \in Digits |-> (CHOOSE i \in 1..10 : DigitChars[i] = c) - 1]

NanText == <<"n", "a", "n">>

InfText == <<"i", "n", "f">>

\* the number of decimals of f"{...:.6f}"
Decimals == 6

RECURSIVE Pow10(_)
Pow10(k) == IF k = 0 THEN 1 ELSE 10 * Pow10(k - 1)

\* 10^6, the number of units of the last decimal in 1
Scale == Pow10(Decimals)

\* the powers of ten below Scale, largest first
Weights == [i \in 1..Decimals |-> Pow10(Decimals - i)]

RECURSIVE IntToText(_)
IntToText(i) ==
    IF i < 10 THEN <<DigitChars[i + 1]>>
    ELSE IntToText(i \div 10) \o <<DigitChars[(i % 10) + 1]>>

\* the 6 decimal digits of m < Scale, zero-padded on the left
PadDigits(m) == [i \in 1..Decimals |-> DigitChars[((m \div Weights[i]) % 10) + 1]]

\* the text of u units of the last decimal: integer part, ".", 6 decimals
FixedText(u) == IntToText(u \div Scale) \o <<".">> \o PadDigits(u % Scale)

\* long division: k more decimals of r/d (0 <= r < d) appended to the
\* digits q; the result is the digits as an integer, and the remainder
RECURSIVE FracDigits(_, _, _, _)
FracDigits(q, r, d, k) ==
    IF k = 0 THEN [q |-> q, r |-> r]
    ELSE FracDigits(10 * q + ((10 * r) \div d), (10 * r) % d, d, k - 1)

\* q units and a remainder of r/d of a unit, rounded to nearest, ties to even
RoundUnits(q, r, d) ==
    IF 2 * r > d \/ (2 * r = d /\ q % 2 = 1) THEN q + 1 ELSE q

RoundedText(fd, d) == FixedText(RoundUnits(fd.q, fd.r, d))

\* f"{x:.6f}" of a float: "nan", "inf", "-inf", or sign, integer part, "."
\* and 6 decimals
FormatFloat(x) ==
    IF IsNaN(x) THEN NanText
    ELSE IF IsInf(x) THEN (IF x.n < 0 THEN <<"-">> ELSE <<>>) \o InfText
    ELSE (IF SignBit(x) THEN <<"-">> ELSE <<>>)
            \o RoundedText(FracDigits(AbsInt(x.n) \div AbsInt(x.d),
                                      AbsInt(x.n) % AbsInt(x.d),
                                      AbsInt(x.d), Decimals), AbsInt(x.d))

ValueError == [ok |-> FALSE, x |-> NaN]

\* float(s) of a decimal literal without sign: digits with at most one ".",
\* at least one digit; anything else is a ValueError.  The scan keeps the
\* digits read so far as the integer n, the number f of them after the ".",
\* whether the "." was seen and whether a digit was seen.
RECURSIVE ScanDecimal(_, _, _, _, _)
ScanDecimal(s, n, f, dot, any) ==
    IF s = <<>>
    THEN (IF any THEN [ok |-> TRUE, x |-> Fin(n, Pow10(f))] ELSE ValueError)
    ELSE IF Head(s) = "."
    THEN (IF dot THEN ValueError ELSE ScanDecimal(Tail(s), n, f, TRUE, any))
    ELSE IF IsDigit(Head(s))
    THEN ScanDecimal(Tail(s), 10 * n + DigitVal[Head(s)],
                     IF dot THEN f + 1 ELSE f, dot, TRUE)
    ELSE ValueError

ParseDecimal(body) == ScanDecimal(body, 0, 0, FALSE, FALSE)

\* float(s) of the text of a cell: optional sign, then "nan", "inf" or a
\* decimal literal.  (Exponents, surrounding blanks and upper case, which
\* float() also accepts, are not in the alphabet of the model.)
ParseFloat(s) ==
    LET signed == s # <<>> /\ s[1] \in {"-", "+"}
        neg    == s # <<>> /\ s[1] = "-"
        body   == IF signed THEN Tail(s) ELSE s
        dec    == ParseDecimal(body)
    IN  IF body = NanText THEN [ok |-> TRUE, x |-> NaN]
        ELSE IF body = InfText THEN [ok |-> TRUE, x |-> Inf(IF neg THEN -1 ELSE 1)]
        ELSE IF dec.ok THEN [ok |-> TRUE, x |-> IF neg THEN FNeg(dec.x) ELSE dec.x]
        ELSE dec

\* A value held in existing_data: a str read from the file (or the default
\* 'nan'), or a numpy float computed by this run.
Str(s) == [t |-> "str", s |-> s, x |-> NaN]

Num(x) == [t |-> "num", s |-> <<>>, x |-> x]

\* format_value(val)
format_value(val) ==
    IF val.t = "str" /\ val.s = NanText THEN NanText
    ELSE LET f == IF val.t = "num" THEN [ok |-> TRUE, x |-> val.x]
                  ELSE ParseFloat(val.s)
         IN  IF f.ok THEN FormatFloat(f.x) ELSE NanText

\* ------------------------------------------------------- Results Ledger

\* the number of fields a ledger line needs to be loaded: len(parts) >= 5
MinFields == 5

\* A line of the CSV file, as line.strip().split(",") sees it: the first
\* field (the identifier) and the text of the other fields.  The empty line
\* is the line whose only field is empty.
Line(id, cells) == [id |-> id, cells |-> cells]

\* the ledger file: absent, or its lines (f.readlines())
AbsentFile == [exists |-> FALSE, lines |-> <<>>]

File(lines) == [exists |-> TRUE, lines |-> lines]

Scripts == {"cnr", "gm_snr", "wm_std", "ghosting"}

\* the header line each script writes
Header(s) ==
    IF s = "ghosting"
    THEN Line("Subject-ID/Session-ID",
              << <<"max rec-standard">>, <<"max rec-navigated">>,
                 <<"mean rec-standard">>, <<"mean rec-navigated">> >>)
    ELSE IF s = "wm_std"
    THEN Line("Subject-ID/Session-ID/Acquisition",
              << <<"max rec-standard">>, <<"max rec-navigated">>,
                 <<"mean rec-standard">>, <<"mean rec-navigated">> >>)
    ELSE Line("Subject-ID/Session-ID/Acquisition",
              << <<"mean rec-standard">>, <<"mean rec-navigated">>,
                 <<"median rec-standard">>, <<"median rec-navigated">> >>)

\* Variant of RowKey: the acquisition region is part of every identifier.
RowKey_PerAcquisition(s, subject, session, acq) ==
    subject \o "/" \o session \o "/" \o acq

\* the identifier of the row a run updates
RowKey(s, subject, session, acq) ==
    IF s = "ghosting" THEN subject \o "/" \o session
    ELSE subject \o "/" \o session \o "/" \o acq

\* existing_data is a dict, which keeps insertion order: a sequence of
\* entries [key, cols], cols being the four values in column order
HasKey(data, key) == \E i \in 1..Len(data) : data[i].key = key

\* Variant of DictSet: a key already there is removed and appended again.
DictSet_MoveToEnd(data, key, cols) ==
    Append(SelectSeq(data, LAMBDA e : e.key # key), [key |-> key, cols |-> cols])

\* existing_data[key] = cols: in place for a key already there, else appended
DictSet(data, key, cols) ==
    IF HasKey(data, key)
    THEN [i \in 1..Len(data) |->
             IF data[i].key = key THEN [key |-> key, cols |-> cols] ELSE data[i]]
    ELSE Append(data, [key |-> key, cols |-> cols])

DictGet(data, key) == data[CHOOSE i \in 1..Len(data) : data[i].key = key].cols

\* `if line.strip()` is false
IsBlank(line) == line.id = "" /\ line.cells = <<>>

NumFields(line) == 1 + Len(line.cells)

\* Variant of LineAccepted: len(parts) > 5.
LineAccepted_OffByOne(line) == ~IsBlank(line) /\ NumFields(line) > MinFields

\* `if line.strip(): parts = ...; if len(parts) >= 5:`
LineAccepted(line) == ~IsBlank(line) /\ NumFields(line) >= MinFields

RECURSIVE LoadLines(_, _)
LoadLines(lines, data) ==
    IF lines = <<>> THEN data
    ELSE LET ln == Head(lines)
         IN  LoadLines(Tail(lines),
                 IF LineAccepted(ln)
                 THEN DictSet(data, ln.id, [j \in 1..4 |-> Str(ln.cells[j])])
                 ELSE data)

\* Variant of LoadCsv: the first line is loaded too (lines instead of
\* lines[1:]).
LoadCsv_KeepHeader(f) ==
    IF f.exists /\ f.lines # <<>> THEN LoadLines(f.lines, <<>>) ELSE <<>>

\* the load step: nothing when the file is absent or has no line, else the
\* accepted lines after the first (lines[1:])
LoadCsv(f) ==
    IF f.exists /\ f.lines # <<>> THEN LoadLines(Tail(f.lines), <<>>) ELSE <<>>

DefaultCols == [j \in 1..4 |-> Str(NanText)]

Recs == {"rec-standard", "rec-navigated"}

\* Variant of RecCols: the variants own adjacent columns.
RecCols_Adjacent(rec) == IF rec = "rec-standard" THEN <<1, 2>> ELSE <<3, 4>>

\* the two columns a reconstruction variant owns
RecCols(rec) == IF rec = "rec-standard" THEN <<1, 3>> ELSE <<2, 4>>

\* Variant of UpdateCols: the row is rebuilt from the defaults.
UpdateCols_Clobber(cols, rec, a, b) ==
    [j \in 1..4 |-> IF j = RecCols(rec)[1] THEN Num(a)
                    ELSE IF j = RecCols(rec)[2] THEN Num(b) ELSE Str(NanText)]

\* the update step: the two columns of rec take the new values
UpdateCols(cols, rec, a, b) ==
    [cols EXCEPT ![RecCols(rec)[1]] = Num(a), ![RecCols(rec)[2]] = Num(b)]

\* the write step: the header, then one line per entry, cells formatted
RowLine(entry) == Line(entry.key, [j \in 1..4 |-> format_value(entry.cols[j])])

\* Variant of UpdateData: the rows loaded from the file are not kept.
UpdateData_Fresh(loaded, key, rec, a, b) ==
    <<[key |-> key, cols |-> UpdateCols(DefaultCols, rec, a, b)]>>

\* existing_data after the default and the update of the row of key
UpdateData(loaded, key, rec, a, b) ==
    LET with == IF HasKey(loaded, key) THEN loaded
                ELSE DictSet(loaded, key, DefaultCols)
    IN  DictSet(with, key, UpdateCols(DictGet(with, key), rec, a, b))

\* the file after open(csv_path, 'w'), the header and the rows are written
Written(s, data) ==
    File(<<Header(s)>> \o [i \in 1..Len(data) |-> RowLine(data[i])])

\* write_csv (inlined in compute_ghosting): load, default, update, write
write_csv(f, s, key, rec, a, b) ==
    Written(s, UpdateData(LoadCsv(f), key, rec, a, b))

\* --------------------------------------------------------------- inputs

\* the number of runs of a behaviour
MaxRuns == 2

Subjects == {"sub-01", "sub-02"}

Sessions == {"ses-01"}

\* the acquisition regions of the runs (two of the three choices of the
\* acquisition_region argument)
Acqs == {"acq-upperT", "acq-lowerT"}

\* The volumes (anatomical image with its masks) a run can find on disk; a
\* volume is the sequence of its slices, a slice the sequence of its voxels,
\* Vx(intensity, wm, gm, gh).
\*   scenario : WM stds 0,2,2, WM means 1,5,6, GM means 2,3,4; the ghosting
\*              mask is empty on the last slice
\*   mixed    : CNR 1, 0, 0 and 0/0 on the four slices
\*   nomask   : two slices, no mask selects a voxel
\*   noslices : shape[2] = 0
VolumeNames == {"scenario", "mixed", "nomask", "noslices"}

VolumeData(v) ==
    IF v = "scenario" THEN
        << << Vx(1, 1, 0, 1), Vx(1, 1, 0, 0), Vx(2, 0, 1, 0), Vx(2, 0, 1, 1) >>,
           << Vx(3, 1, 0, 0), Vx(7, 1, 0, 1), Vx(2, 0, 1, 0), Vx(4, 0, 1, 0) >>,
           << Vx(4, 1, 0, 0), Vx(8, 1, 0, 0), Vx(3, 0, 1, 0), Vx(5, 0, 1, 0) >> >>
    ELSE IF v = "mixed" THEN
        << << Vx(3, 1, 0, 1), Vx(7, 1, 0, 0), Vx(2, 0, 1, 0), Vx(4, 0, 1, 0) >>,
           << Vx(3, 1, 0, 0), Vx(7, 1, 0, 1), Vx(4, 0, 1, 0), Vx(6, 0, 1, 0) >>,
           << Vx(4, 1, 0, 1), Vx(8, 1, 0, 0), Vx(5, 0, 1, 0), Vx(7, 0, 1, 0) >>,
           << Vx(2, 1, 0, 0), Vx(2, 1, 0, 0), Vx(1, 0, 1, 0), Vx(3, 0, 1, 0) >> >>
    ELSE IF v = "nomask" THEN
        << << Vx(5, 0, 0, 0), Vx(6, 0, 0, 0) >>,
           << Vx(7, 0, 0, 0), Vx(8, 0, 0, 0) >> >>
    ELSE << >>

\* texts found in the cells of a ledger that is already on disk
T_0_123456 == <<"0", ".", "1", "2", "3", "4", "5", "6">>

T_0_654321 == <<"0", ".", "6", "5", "4", "3", "2", "1">>

T_2_500000 == <<"2", ".", "5", "0", "0", "0", "0", "0">>

T_neg_zero == <<"-", "0", ".", "0", "0", "0", "0", "0", "0">>

\* The ledgers a first run of script s can find on disk.
PriorFiles(s) ==
    LET k1 == RowKey(s, "sub-01", "ses-01", "acq-upperT")
        k8 == RowKey(s, "sub-08", "ses-01", "acq-LSE")
        k9 == RowKey(s, "sub-09", "ses-01", "acq-LSE")
    IN  { \* no file yet, and a file without a line
          AbsentFile,
          File(<< >>),
          \* a ledger as the scripts write it
          File(<< Header(s),
                  Line(k1, <<T_0_123456, NanText, T_0_654321, NanText>>),
                  Line(k9, <<T_2_500000, InfText, T_neg_zero, T_0_123456>>) >>),
          \* an edited ledger: cells in other notations, a short line, an
          \* empty line, a line with a sixth field
          File(<< Header(s),
                  Line(k1, << <<"1", ".", "5">>, <<"a", "b", "c">>, << >>,
                              <<"-", ".", "5">> >>),
                  Line(k8, << <<"1">>, <<"2">> >>),
                  Line("", << >>),
                  Line(k9, << <<"2">>, <<"+", "3">>,
                              <<"0", ".", "1", "2", "3", "4", "5", "6", "5">>,
                              <<"5", ".">>, <<"x">> >>) >>),
          \* a ledger without header line and with an identifier twice
          File(<< Line(k8, <<T_0_123456, NanText, T_0_654321, NanText>>),
                  Line(k9, <<T_2_500000, T_2_500000, NanText, NanText>>),
                  Line(k1, <<NanText, T_0_654321, NanText, T_0_123456>>),
                  Line(k9, <<NanText, NanText, T_0_123456, T_0_123456>>) >>) }

\* the choices of the acquisition_region argument
AcqChoices == {"acq-upperT", "acq-lowerT", "acq-LSE"}

\* the values given as path_processed_data, and os.path.isdir of them
DataPaths == {"/study/processed", "/study/nowhere"}

IsDir(path) == path \in {"/study/processed", "/study/data"}

\* the command line of a run and the volume its file names lead to
Request(path, subject, session, acq, rec, v) ==
    [path |-> path, subject |-> subject, session |-> session, acq |-> acq,
     rec |-> rec, vol |-> v]

\* the runs whose arguments, directory and files are in order
GoodRequests ==
    {Request("/study/processed", subject, session, acq, rec, v) :
        subject \in Subjects, session \in Sessions, acq \in Acqs,
        rec \in Recs, v \in VolumeNames}

\* Runs that end before the reduction: an acquisition region or a
\* reconstruction outside the choices, a path that is no directory, a
\* volume or mask file that nib.load cannot read.
BadRequests ==
    UNION {{Request("/study/processed", subject, "ses-01", "acq-cervical",
                    "rec-standard", "scenario"),
            Request("/study/processed", subject, "ses-01", "acq-upperT",
                    "rec-raw", "scenario"),
            Request("/study/nowhere", subject, "ses-01", "acq-upperT",
                    "rec-navigated", "mixed"),
            Request("/study/processed", subject, "ses-01", "acq-lowerT",
                    "rec-navigated", "unreadable")} : subject \in Subjects}

Requests == GoodRequests \cup BadRequests

\* ------------------------------------------------------- state machine

VARIABLES
    script,     \* the script whose ledger this behaviour follows
    resultsDir, \* whether the directory "results" of the ledger exists
    csv,        \* the ledger file of that script
    prevCsv,    \* the ledger file as the last run found it
    last,       \* the arguments, input and outcome of the last run
    before,     \* the same of the run before the last
    runs,       \* the number of runs so far
    proc,       \* two invocations inside write_csv at the same time
    events,     \* the steps those two have taken, in order
    cmd,        \* the command line of a run of create_ghosting_mask
    anat,       \* the anatomical image that run loads
    labels,     \* the landmark file and its CSV and JSON sidecars
    maskFile,   \* the ghosting mask file
    pc,         \* the statement the run of create_ghosting_mask is at
    calls       \* how many times that run has invoked sct_get_centerline

ledgerVars ==
    <<script, resultsDir, csv, prevCsv, last, before, runs, proc, events>>

maskVars == <<cmd, anat, labels, maskFile, pc, calls>>

vars ==
    <<script, resultsDir, csv, prevCsv, last, before, runs, proc, events,
      cmd, anat, labels, maskFile, pc, calls>>

\* no run of create_ghosting_mask
NoMaskRun ==
    /\ cmd = << >>
    /\ anat = << >>
    /\ labels = << >>
    /\ maskFile = << >>
    /\ pc = ""
    /\ calls = 0

\* no invocation is inside write_csv
NoProc == << >>

NoRun ==
    [path |-> "", subject |-> "", session |-> "", acq |-> "", rec |-> "",
     vol |-> "", status |-> "none", step |-> ""]

\* without the directory there is no file in it
Init ==
    /\ script \in Scripts
    /\ \/ resultsDir = TRUE /\ csv \in PriorFiles(script)
       \/ resultsDir = FALSE /\ csv = AbsentFile
    /\ prevCsv = csv
    /\ last = NoRun
    /\ before = NoRun
    /\ runs = 0
    /\ proc = NoProc
    /\ events = << >>
    /\ NoMaskRun

\* the reduction of script s over a volume: the two values, or raised
Reduce(s, vol) ==
    IF s = "cnr" THEN ReduceCnr(vol)
    ELSE IF s = "gm_snr" THEN ReduceGmSnr(vol)
    ELSE IF s = "wm_std" THEN ReduceWmStd(vol)
    ELSE ReduceGhosting(vol)

\* what each script computes from each volume
Reduced == [s \in Scripts, v \in VolumeNames |-> Reduce(s, VolumeData(v))]

\* the ledger after a run of script s with these arguments on volume v: an
\* exception in the reduction ends the run before write_csv
RunResult(f, s, subject, session, acq, rec, v) ==
    LET r == Reduced[s, v]
    IN  IF r.raised THEN f
        ELSE write_csv(f, s, RowKey(s, subject, session, acq), rec, r.a, r.b)

\* Variant of FailedAt: the directory of the ledger is made when missing.
FailedAt_MakeDirs(s, dir, r) ==
    IF r.acq \notin AcqChoices \/ r.rec \notin Recs THEN "arguments"
    ELSE IF ~IsDir(r.path) THEN "path"
    ELSE IF r.vol \notin VolumeNames THEN "load"
    ELSE IF Reduced[s, r.vol].raised THEN "reduce"
    ELSE ""

\* The step at which a run of script s ends with an error, "" when it ends
\* well: parse_args, the isdir check, nib.load, the reduction, and
\* open(csv_path, 'w'), which needs the directory of the file.
FailedAt(s, dir, r) ==
    IF r.acq \notin AcqChoices \/ r.rec \notin Recs THEN "arguments"
    ELSE IF ~IsDir(r.path) THEN "path"
    ELSE IF r.vol \notin VolumeNames THEN "load"
    ELSE IF Reduced[s, r.vol].raised THEN "reduce"
    ELSE IF ~dir THEN "write"
    ELSE ""

\* Variant of LedgerAfter: the row is written with the default values
\* ('nan') before the volume is loaded and reduced.
LedgerAfter_RowFirst(f, s, dir, r) ==
    IF FailedAt(s, dir, r) \in {"load", "reduce"}
    THEN write_csv(f, s, RowKey(s, r.subject, r.session, r.acq), r.rec,
                   NaN, NaN)
    ELSE IF FailedAt(s, dir, r) = ""
    THEN RunResult(f, s, r.subject, r.session, r.acq, r.rec, r.vol)
    ELSE f

\* the ledger file after a run: write_csv is the last statement of a run
LedgerAfter(f, s, dir, r) ==
    IF FailedAt(s, dir, r) = ""
    THEN RunResult(f, s, r.subject, r.session, r.acq, r.rec, r.vol)
    ELSE f

\* One run of script s: parse the arguments, check the path, load the
\* volume and masks, reduce, update the ledger.
Run(s) ==
    /\ runs < MaxRuns
    /\ \E r \in Requests :
          /\ csv' = LedgerAfter(csv, s, resultsDir, r)
          /\ last' = [path |-> r.path, subject |-> r.subject,
                      session |-> r.session, acq |-> r.acq, rec |-> r.rec,
                      vol |-> r.vol,
                      status |-> IF FailedAt(s, resultsDir, r) = ""
                                 THEN "ok" ELSE "failed",
                      step |-> FailedAt(s, resultsDir, r)]
    /\ prevCsv' = csv
    /\ before' = last
    /\ runs' = runs + 1
    /\ UNCHANGED <<script, resultsDir, proc, events>>
    /\ UNCHANGED maskVars

compute_cnr == script = "cnr" /\ Run("cnr")

compute_gm_snr == script = "gm_snr" /\ Run("gm_snr")

compute_wm_std == script = "wm_std" /\ Run("wm_std")

compute_ghosting == script = "ghosting" /\ Run("ghosting")

Next == compute_cnr \/ compute_gm_snr \/ compute_wm_std \/ compute_ghosting

Spec == Init /\ [][Next]_vars

\* ------------------------------------ two invocations at the same time

\* Two invocations of one script are inside write_csv together.  Each has
\* its values already (the reduction precedes write_csv) and takes two
\* steps: it reads the file into existing_data and updates its row there,
\* then it opens the file for writing and writes existing_data out.  The
\* write (open, write, close) is one step: the interleavings in which the
\* two files are open for writing together are left out.
Procs == {1, 2}

StartProc(r) == [pc |-> "read", req |-> r, data |-> << >>]

InitRace ==
    /\ script \in Scripts
    /\ resultsDir = TRUE
    /\ csv \in PriorFiles(script)
    /\ prevCsv = csv
    /\ last = NoRun
    /\ before = NoRun
    /\ runs = 0
    /\ \E rec1 \in Recs, rec2 \in Recs, subject \in Subjects :
          proc = << StartProc(Request("/study/processed", "sub-01", "ses-01",
                                      "acq-upperT", rec1, "scenario")),
                    StartProc(Request("/study/processed", subject, "ses-01",
                                      "acq-upperT", rec2, "mixed")) >>
    /\ events = << >>
    /\ NoMaskRun

\* lines 82-118 of write_csv: the file is read, the row is set in memory
ReadLedger(p) ==
    /\ proc # NoProc
    /\ proc[p].pc = "read"
    /\ LET r == proc[p].req
       IN  proc' = [proc EXCEPT
                      ![p].pc = "write",
                      ![p].data =
                          UpdateData(LoadCsv(csv),
                                     RowKey(script, r.subject, r.session, r.acq),
                                     r.rec, Reduced[script, r.vol].a,
                                     Reduced[script, r.vol].b)]
    /\ events' = Append(events, <<p, "read">>)
    /\ UNCHANGED <<script, resultsDir, csv, prevCsv, last, before, runs>>
    /\ UNCHANGED maskVars

\* lines 120-131 of write_csv: the file is replaced by existing_data
WriteLedger(p) ==
    /\ proc # NoProc
    /\ proc[p].pc = "write"
    /\ csv' = Written(script, proc[p].data)
    /\ proc' = [proc EXCEPT ![p].pc = "done"]
    /\ events' = Append(events, <<p, "write">>)
    /\ UNCHANGED <<script, resultsDir, prevCsv, last, before, runs>>
    /\ UNCHANGED maskVars

NextRace == \E p \in Procs : ReadLedger(p) \/ WriteLedger(p)

SpecRace == InitRace /\ [][NextRace]_vars

\* ------------------------------------------------ create_ghosting_mask

\* Width of the mask in millimeters
width_mm == 10

ext == ".nii.gz"

contrast == "T2starw"

\* os.path.join of relative parts
RECURSIVE PathJoin(_)
PathJoin(parts) ==
    IF Len(parts) = 1 THEN parts[1]
    ELSE parts[1] \o "/" \o PathJoin(Tail(parts))

\* the name of the navigated image of a subject, session and region
file_anat(subject, session, acq) ==
    subject \o "_" \o session \o "_" \o acq \o "_rec-navigated_" \o contrast

\* the mask file create_ghosting_mask saves
path_ghosting_mask(processed, subject, session, acq) ==
    PathJoin(<<processed, subject, session, "anat",
               file_anat(subject, session, acq) \o "_ghosting_mask" \o ext>>)

\* the mask file compute_ghosting loads
compute_ghosting_path_ghosting_mask(processed, subject, session, acq) ==
    PathJoin(<<processed, subject, session, "anat",
               subject \o "_" \o session \o "_" \o acq \o "_rec-navigated_"
                   \o contrast \o "_ghostingMask" \o ext>>)

\* path_processed_data defaults to path_data
path_processed_data(c) ==
    IF c.processed = "" THEN c.data ELSE c.processed

\* the command lines: data path, optional processed-data path, subject,
\* session, region
MaskCmds ==
    {[data |-> "/study/data", processed |-> pr, subject |-> "sub-01",
      session |-> "ses-01", acq |-> acq] :
        pr \in {"", "/study/processed"}, acq \in Acqs}
    \cup {[data |-> "/study/nowhere", processed |-> "", subject |-> "sub-01",
           session |-> "ses-01", acq |-> "acq-upperT"]}

\* the images: 8 x 4 voxels on 2 slices, the voxel size on axis 0 in mm as
\* a fraction <<numerator, denominator>>
PixDims == {<<5, 1>>, <<4, 1>>, <<10, 1>>}

Images == {[nx |-> 8, ny |-> 4, nz |-> 2, pixdim |-> pd] : pd \in PixDims}

\* The landmark images: for each slice the voxels > 0, as <<x, y>>.  A
\* landmark in the middle of each slice; landmarks near the two edges of
\* axis 0; none on slice 0; none at all; two on slice 0; none on slice 1.
Placements ==
    { << {<<4, 2>>}, {<<3, 3>>} >>,
      << {<<1, 2>>}, {<<7, 1>>} >>,
      << {}, {<<4, 2>>} >>,
      << {}, {} >>,
      << {<<4, 2>>, <<2, 3>>}, {<<3, 0>>} >>,
      << {<<4, 2>>}, {} >> }

AbsentTip == [exists |-> FALSE, marks |-> << >>, by |-> ""]

AbsentMask == [exists |-> FALSE, path |-> "", voxels |-> {}]

\* int(round(mm_value / pixdim)): round is to nearest, ties to even
convert_mm_to_pix(mm_value, pixdim) ==
    LET n == mm_value * pixdim[2]
        d == pixdim[1]
    IN  RoundUnits(n \div d, n % d, d)

\* np.argwhere lists the voxels in row-major order: the first is the one
\* of least x, and of least y among those
FirstCoord(S) ==
    CHOOSE c \in S : \A e \in S : c[1] < e[1] \/ (c[1] = e[1] /\ c[2] <= e[2])

\* the indices a[start:stop] selects on an axis of n: a negative bound
\* counts from the end, and bounds are clipped to the axis
SliceIndex(i, n) ==
    IF i < 0 THEN (IF i + n < 0 THEN 0 ELSE i + n)
    ELSE IF i > n THEN n ELSE i

SliceRange(start, stop, n) == SliceIndex(start, n) .. (SliceIndex(stop, n) - 1)

\* the voxels `ghosting_mask[x_start:x_end, y_start:y_end, z] = 1` sets
SliceMask(a, S, z) ==
    LET x_center       == FirstCoord(S)[1]
        y_limit        == FirstCoord(S)[2]
        half_width_pix == convert_mm_to_pix(width_mm, a.pixdim)
    IN  {<<x, y, z>> : x \in SliceRange(x_center - half_width_pix,
                                         x_center + half_width_pix, a.nx),
                       y \in SliceRange(0, y_limit, a.ny)}

\* The loop over the slices from z on and the statement after it.
\* ghosting_mask is bound only when slice 0 has a landmark: using it
\* unbound, in the loop or at nib.Nifti1Image, raises NameError.
RECURSIVE MaskLoop(_, _, _, _, _)
MaskLoop(z, a, marks, bound, mask) ==
    IF z = a.nz THEN [raised |-> ~bound, voxels |-> mask]
    ELSE IF marks[z + 1] = {} THEN MaskLoop(z + 1, a, marks, bound, mask)
    ELSE IF z # 0 /\ ~bound THEN [raised |-> TRUE, voxels |-> {}]
    ELSE MaskLoop(z + 1, a, marks, TRUE,
                  (IF z = 0 THEN {} ELSE mask) \cup SliceMask(a, marks[z + 1], z))

\* Variant of JsonAfter: the JSON sidecar is written whether it is there
\* or not.
JsonAfter_Overwrite(json) == "written"

\* the JSON sidecar after `if not os.path.exists(path_body_post_tip_json)`
JsonAfter(json) == IF json = "absent" THEN "written" ELSE json

\* no run of a measurement script
NoLedgerRun ==
    /\ script = ""
    /\ resultsDir = FALSE
    /\ csv = AbsentFile
    /\ prevCsv = AbsentFile
    /\ last = NoRun
    /\ before = NoRun
    /\ runs = 0
    /\ proc = NoProc
    /\ events = << >>

InitMask ==
    /\ NoLedgerRun
    /\ cmd \in MaskCmds
    /\ anat \in Images
    /\ \E tip \in {AbsentTip} \cup
                  {[exists |-> TRUE, marks |-> m, by |-> "user"] : m \in Placements},
          c \in BOOLEAN, json \in {"absent", "kept"} :
          labels = [tip |-> tip, csv |-> c, json |-> json]
    /\ maskFile \in
          {AbsentMask,
           [exists |-> TRUE,
            path |-> path_ghosting_mask(path_processed_data(cmd), cmd.subject,
                                        cmd.session, cmd.acq),
            voxels |-> {<<0, 0, 0>>}]}
    /\ pc = "check"
    /\ calls = 0

\* lines 61-63: sys.exit(1) when path_data is no directory
check_path_data ==
    /\ pc = "check"
    /\ pc' = IF IsDir(cmd.data) THEN "identify" ELSE "exit"
    /\ UNCHANGED <<cmd, anat, labels, maskFile, calls>>
    /\ UNCHANGED ledgerVars

\* lines 84-86: sct_get_centerline is run when the landmark file is not
\* there (check=True: a non-zero return raises).  The tool writes the
\* landmark image, and may leave a CSV file beside it.
identify_tip ==
    /\ pc = "identify"
    /\ IF labels.tip.exists
       THEN pc' = "remove_csv" /\ UNCHANGED <<labels, calls>>
       ELSE /\ calls' = calls + 1
            /\ \/ \E m \in Placements, c \in BOOLEAN :
                     /\ labels' = [labels EXCEPT
                                     !.tip = [exists |-> TRUE, marks |-> m,
                                              by |-> "tool"],
                                     !.csv = labels.csv \/ c]
                     /\ pc' = "remove_csv"
               \/ pc' = "tool_failed" /\ UNCHANGED labels
    /\ UNCHANGED <<cmd, anat, maskFile>>
    /\ UNCHANGED ledgerVars

\* lines 87-89
remove_csv ==
    /\ pc = "remove_csv"
    /\ labels' = [labels EXCEPT !.csv = FALSE]
    /\ pc' = "create_json"
    /\ UNCHANGED <<cmd, anat, maskFile, calls>>
    /\ UNCHANGED ledgerVars

\* lines 90-107
create_json ==
    /\ pc = "create_json"
    /\ labels' = [labels EXCEPT !.json = JsonAfter(labels.json)]
    /\ pc' = "create_mask"
    /\ UNCHANGED <<cmd, anat, maskFile, calls>>
    /\ UNCHANGED ledgerVars

\* lines 109-141: the loop over the slices, then the mask is saved
create_mask ==
    /\ pc = "create_mask"
    /\ LET r == MaskLoop(0, anat, labels.tip.marks, FALSE, {})
       IN  IF r.raised
           THEN pc' = "name_error" /\ UNCHANGED maskFile
           ELSE /\ pc' = "done"
                /\ maskFile' =
                      [exists |-> TRUE,
                       path |-> path_ghosting_mask(path_processed_data(cmd),
                                                   cmd.subject, cmd.session,
                                                   cmd.acq),
                       voxels |-> r.voxels]
    /\ UNCHANGED <<cmd, anat, labels, calls>>
    /\ UNCHANGED ledgerVars

NextMask ==
    check_path_data \/ identify_tip \/ remove_csv \/ create_json \/ create_mask

SpecMask == InitMask /\ [][NextMask]_vars

\* ----------------------------------------------------------- properties

\* the request of a run applied to a ledger file
Apply(f, r) == RunResult(f, script, r.subject, r.session, r.acq, r.rec, r.vol)

\* a run with arguments within their choices, an existing data directory,
\* readable files and an existing directory for the ledger
WellPosed(r) ==
    /\ r.status # "none"
    /\ r.acq \in AcqChoices /\ r.rec \in Recs
    /\ IsDir(r.path)
    /\ r.vol \in VolumeNames
    /\ resultsDir

\* the identifier of the row the last run, and the run before it, updates
ThisKey == RowKey(script, last.subject, last.session, last.acq)

BeforeKey == RowKey(script, before.subject, before.session, before.acq)

\* the lines of a file after its first line
DataLines(f) == IF f.lines = <<>> THEN <<>> ELSE Tail(f.lines)

Ids(f) == [i \in 1..Len(DataLines(f)) |-> DataLines(f)[i].id]

\* a line with at least 5 comma-separated fields
WellFormed(ln) == Len(ln.cells) + 1 >= 5

\* the data lines of f that carry the identifier id
RowsWithId(f, id) == {i \in 1..Len(DataLines(f)) : DataLines(f)[i].id = id}

RowOf(f, id) == DataLines(f)[CHOOSE i \in RowsWithId(f, id) : TRUE]

\* the well-formed data lines of f that no later well-formed line of the
\* same identifier supersedes
KeptLines(f) ==
    {i \in 1..Len(DataLines(f)) :
        /\ WellFormed(DataLines(f)[i])
        /\ \A k \in RowsWithId(f, DataLines(f)[i].id) :
              k > i => ~WellFormed(DataLines(f)[k])}

\* the columns of a reconstruction variant: mean|max, then median|mean
OwnCols(rec) == IF rec = "rec-standard" THEN {1, 3} ELSE {2, 4}

\* the two cells of variant rec in the row of id
OwnCells(f, id, rec) ==
    IF rec = "rec-standard"
    THEN <<RowOf(f, id).cells[1], RowOf(f, id).cells[3]>>
    ELSE <<RowOf(f, id).cells[2], RowOf(f, id).cells[4]>>

\* a fixed-point number with exactly 6 decimals: optional "-", digits
\* without a superfluous leading 0, ".", 6 digits
IsFixed6(t) ==
    LET body == IF t # <<>> /\ t[1] = "-" THEN Tail(t) ELSE t
        n    == Len(body)
    IN  /\ n >= 8
        /\ body[n - 6] = "."
        /\ \A i \in 1..n : i # n - 6 => IsDigit(body[i])
        /\ (n > 8 => body[1] # "0")

\* the texts format_value writes
WrittenFormat(t) == IsFixed6(t) \/ t \in {NanText, InfText, <<"-">> \o InfText}

\* C1 as stated: column isolation.  After an update, every row the ledger
\* had keeps the text of its cells, but for the two cells of the updated
\* variant in the updated row.
C1_CellsKeptVerbatim ==
    last.status = "ok" =>
        \A i \in KeptLines(prevCsv) :
            LET ln == DataLines(prevCsv)[i]
            IN  /\ RowsWithId(csv, ln.id) # {}
                /\ \A j \in 1..4 :
                      (ln.id = ThisKey /\ j \in OwnCols(last.rec))
                      \/ RowOf(csv, ln.id).cells[j] = ln.cells[j]

\* C1 amended: column isolation.  After an update, every row the load step
\* keeps has exactly one row in the file, and each of its cells outside the
\* two cells of the updated variant in the updated row is format_value of
\* its old text: the same text when it was in the written format already.
C1_ColumnIsolation ==
    last.status = "ok" =>
        \A i \in KeptLines(prevCsv) :
            LET ln == DataLines(prevCsv)[i]
            IN  /\ Cardinality(RowsWithId(csv, ln.id)) = 1
                /\ \A j \in 1..4 :
                      (ln.id = ThisKey /\ j \in OwnCols(last.rec))
                      \/ /\ RowOf(csv, ln.id).cells[j] = format_value(Str(ln.cells[j]))
                         /\ WrittenFormat(ln.cells[j])
                                => RowOf(csv, ln.id).cells[j] = ln.cells[j]

\* an update of a row that had a number in a cell of the other variant,
\* in a ledger with another row
C1_Witness ==
    /\ last.status = "ok"
    /\ \E i \in KeptLines(prevCsv) :
          /\ DataLines(prevCsv)[i].id = ThisKey
          /\ \E j \in (1..4) \ OwnCols(last.rec) :
                /\ IsFixed6(DataLines(prevCsv)[i].cells[j])
                /\ RowOf(csv, ThisKey).cells[j] = DataLines(prevCsv)[i].cells[j]
    /\ \E i \in KeptLines(prevCsv) : DataLines(prevCsv)[i].id # ThisKey

\* C2: idempotence.  When a run repeats the run before it (same script,
\* arguments and volume, hence the same identifier, variant and values),
\* the ledger file after it is the file it found.
C2_Idempotent ==
    (before.status = "ok" /\ last = before) => csv = prevCsv

\* the same update applied twice, writing a number
C2_Witness ==
    /\ before.status = "ok"
    /\ last = before
    /\ IsFixed6(OwnCells(csv, ThisKey, last.rec)[2])

\* C3: commutativity of variants.  When a run updates the row the run before
\* it updated, for the other variant, the file is the one the two runs give
\* in the other order from the file the first of them found.
C3_VariantsCommute ==
    [][ ( /\ runs' = runs + 1
          /\ last.status = "ok"
          /\ last'.status = "ok"
          /\ RowKey(script, last'.subject, last'.session, last'.acq) = ThisKey
          /\ last'.rec # last.rec )
        => csv' = Apply(Apply(prevCsv, last'), last) ]_vars

\* both variants of a row written by two runs on different volumes
C3_Witness ==
    /\ before.status = "ok"
    /\ last.status = "ok"
    /\ BeforeKey = ThisKey
    /\ before.rec # last.rec
    /\ before.vol # last.vol
    /\ IsFixed6(OwnCells(csv, ThisKey, last.rec)[2])
    /\ IsFixed6(OwnCells(csv, ThisKey, before.rec)[2])

\* the identifiers of the well-formed lines, each at its first occurrence
RECURSIVE SeenOrder(_, _)
SeenOrder(lines, seen) ==
    IF lines = <<>> THEN seen
    ELSE SeenOrder(Tail(lines),
             IF WellFormed(Head(lines))
                /\ \A i \in 1..Len(seen) : seen[i] # Head(lines).id
             THEN Append(seen, Head(lines).id) ELSE seen)

\* C4: order preservation.  After an update the rows carry the identifiers
\* of the rows the ledger had, in their order, followed by the updated
\* identifier when it is new; in a ledger without dropped lines every row
\* keeps its position.
C4_OrderPreserved ==
    last.status = "ok" =>
        LET old == SeenOrder(DataLines(prevCsv), <<>>)
        IN  /\ Ids(csv) = IF \E i \in 1..Len(old) : old[i] = ThisKey
                          THEN old ELSE Append(old, ThisKey)
            /\ Ids(prevCsv) = old =>
                  \A i \in 1..Len(old) : Ids(csv)[i] = Ids(prevCsv)[i]

\* A was in the ledger, B was first written after it, then A is updated
\* again: A is still before B
C4_Witness ==
    /\ before.status = "ok"
    /\ last.status = "ok"
    /\ BeforeKey # ThisKey
    /\ Len(Ids(prevCsv)) >= 2
    /\ Ids(prevCsv)[Len(Ids(prevCsv))] = BeforeKey
    /\ \E i \in 1..(Len(Ids(prevCsv)) - 1) :
          Ids(prevCsv)[i] = ThisKey /\ Ids(csv)[i] = ThisKey
    /\ Ids(csv) = Ids(prevCsv)

\* the mask whose standard deviation is the denominator of the ratio
DenominatorMask(s) == IF s = "cnr" THEN "wm" ELSE "gm"

\* the slice-wise ratio under the rule of C5: undefined when the standard
\* deviation in the denominator is 0
RuleRatio(s, sl) ==
    IF MaStd(Masked(sl, DenominatorMask(s))) = Fin(0, 1) THEN NaN
    ELSE IF s = "cnr" THEN SliceCnr(sl) ELSE SliceSnr(sl)

RuleRatios(s, vol) == [z \in 1..Len(vol) |-> RuleRatio(s, vol[z])]

\* C5 as stated: ratio undefined rule.  In compute_cnr and compute_gm_snr
\* the two cells written are the mean and the median of the slice-wise
\* ratios of the slices whose denominator is not 0 (for the volume
\* "scenario" and the CNR: 1.000000 and 1.000000).
C5_ZeroStdExcluded ==
    (last.status = "ok" /\ script \in {"cnr", "gm_snr"}) =>
        OwnCells(csv, ThisKey, last.rec) =
            << FormatFloat(NanMean(RuleRatios(script, VolumeData(last.vol)))),
               FormatFloat(NanMedian(RuleRatios(script, VolumeData(last.vol)))) >>

\* the masks a script reads
UsedMasks(s) ==
    IF s = "cnr" THEN {"wm", "gm"}
    ELSE IF s = "gm_snr" THEN {"gm"}
    ELSE IF s = "wm_std" THEN {"wm"}
    ELSE {"gh"}

\* at least one slice, and no voxel selected on any slice
NothingSelected(s, vol) ==
    /\ Len(vol) >= 1
    /\ \A z \in 1..Len(vol) : \A m \in UsedMasks(s) : Masked(vol[z], m) = <<>>

\* C6: NaN propagation.  A run on a volume whose masks select no voxel on
\* any slice does not fail, and the two cells it writes are "nan".
C6_NanPropagation ==
    (WellPosed(last) /\ NothingSelected(script, VolumeData(last.vol))) =>
        /\ last.status = "ok"
        /\ OwnCells(csv, ThisKey, last.rec) = <<NanText, NanText>>

\* such a run, on a row that had numbers in these two cells
C6_Witness ==
    /\ last.status = "ok"
    /\ NothingSelected(script, VolumeData(last.vol))
    /\ RowsWithId(prevCsv, ThisKey) # {}
    /\ WellFormed(RowOf(prevCsv, ThisKey))
    /\ IsFixed6(OwnCells(prevCsv, ThisKey, last.rec)[1])
    /\ OwnCells(csv, ThisKey, last.rec) = <<NanText, NanText>>

\* C7 as stated: zero-slice edge case.  A run on a volume without slices
\* does not fail, and the two cells it writes are "nan".
C7_ZeroSlicesGiveNan ==
    (WellPosed(last) /\ VolumeData(last.vol) = <<>>) =>
        /\ last.status = "ok"
        /\ OwnCells(csv, ThisKey, last.rec) = <<NanText, NanText>>

\* C8: malformed-row tolerance.  A run fails only in its reduction,
\* whatever the lines of the ledger; after an update every line of the file
\* has 5 fields, the identifier of a short line is in the file only if it is
\* the updated one or that of a well-formed line, and the identifier of
\* every well-formed line is in the file.
C8_MalformedRowsSkipped ==
    /\ (WellPosed(last) /\ last.status = "failed") =>
          Reduced[script, last.vol].raised
    /\ last.status = "ok" =>
          /\ \A i \in 1..Len(csv.lines) : Len(csv.lines[i].cells) + 1 = 5
          /\ \A i \in 1..Len(DataLines(prevCsv)) :
                LET ln == DataLines(prevCsv)[i]
                IN  IF WellFormed(ln) THEN RowsWithId(csv, ln.id) # {}
                    ELSE RowsWithId(csv, ln.id) # {} =>
                            \/ ln.id = ThisKey
                            \/ \E k \in RowsWithId(prevCsv, ln.id) :
                                  WellFormed(DataLines(prevCsv)[k])

\* an update of a ledger with a 3-field line, whose identifier is gone, and
\* a well-formed line after it, whose identifier is still there
C8_Witness ==
    /\ last.status = "ok"
    /\ \E i \in 1..Len(DataLines(prevCsv)) :
          /\ Len(DataLines(prevCsv)[i].cells) + 1 = 3
          /\ RowsWithId(csv, DataLines(prevCsv)[i].id) = {}
          /\ \E k \in (i + 1)..Len(DataLines(prevCsv)) :
                /\ WellFormed(DataLines(prevCsv)[k])
                /\ RowsWithId(csv, DataLines(prevCsv)[k].id) # {}

\* C9: first write.  An update of an absent or empty ledger leaves the
\* header line and one row: the identifier, the two values in the columns of
\* the variant (1 and 3 for rec-standard, 2 and 4 for rec-navigated), "nan"
\* in the other two.
C9_FirstWrite ==
    (last.status = "ok" /\ prevCsv.lines = <<>>) =>
        LET a == FormatFloat(Reduced[script, last.vol].a)
            b == FormatFloat(Reduced[script, last.vol].b)
        IN  /\ csv.exists
            /\ csv.lines =
                  << Header(script),
                     Line(ThisKey,
                          IF last.rec = "rec-standard"
                          THEN <<a, NanText, b, NanText>>
                          ELSE <<NanText, a, NanText, b>>) >>

\* the first write of compute_wm_std for rec-standard on "scenario":
\* max 2, mean 4/3
C9_Witness ==
    /\ last.status = "ok"
    /\ prevCsv.lines = <<>>
    /\ script = "wm_std"
    /\ last.rec = "rec-standard"
    /\ DataLines(csv) =
          << Line(ThisKey,
                  << <<"2", ".", "0", "0", "0", "0", "0", "0">>, NanText,
                     <<"1", ".", "3", "3", "3", "3", "3", "3">>, NanText >>) >>

\* C10 as stated: cell format invariant.  After an update every data line
\* has an identifier and four cells, each a fixed-point number with 6
\* decimals or "nan".
C10_CellFormat ==
    last.status = "ok" =>
        \A i \in 1..Len(DataLines(csv)) :
            /\ Len(DataLines(csv)[i].cells) = 4
            /\ \A j \in 1..4 :
                  \/ IsFixed6(DataLines(csv)[i].cells[j])
                  \/ DataLines(csv)[i].cells[j] = NanText

\* a run that gets as far as write_csv: arguments within their choices, an
\* existing data directory, readable files, a reduction that does not raise
ReachesUpdate(r) ==
    /\ r.status # "none"
    /\ r.acq \in AcqChoices /\ r.rec \in Recs
    /\ IsDir(r.path)
    /\ r.vol \in VolumeNames
    /\ ~Reduced[script, r.vol].raised

\* C11: destination failure rule.  A ledger update fails, and no ledger
\* file is created, when the directory "results" does not exist; it succeeds
\* and creates the file, header and one row, when the directory exists and
\* the file does not.
C11_DestinationFailure ==
    ReachesUpdate(last) =>
        /\ ~resultsDir =>
              /\ last.status = "failed" /\ last.step = "write"
              /\ csv = AbsentFile
        /\ (resultsDir /\ prevCsv = AbsentFile) =>
              /\ last.status = "ok"
              /\ csv.exists
              /\ Len(csv.lines) = 2
              /\ csv.lines[1] = Header(script)
              /\ csv.lines[2].id = ThisKey

\* two updates in a row have failed for the missing directory, and there
\* is still no file
C11_Witness ==
    /\ ~resultsDir
    /\ ReachesUpdate(before) /\ before.step = "write"
    /\ ReachesUpdate(last) /\ last.step = "write"
    /\ ~csv.exists

\* C12: failed runs leave the ledger unchanged.  A run that ends at the
\* parsing of its arguments, at the check of the data directory, at the
\* loading of a file or in its reduction leaves the ledger file as it found
\* it; every run that ends before write_csv is such a run.
C12_FailedRunsKeepLedger ==
    /\ last.status = "failed" => csv = prevCsv
    /\ last.step \in {"arguments", "path", "load", "reduce"} =>
          last.status = "failed"
    /\ (last.status # "none" /\ ~ReachesUpdate(last)) =>
          /\ last.status = "failed"
          /\ last.step \in {"arguments", "path", "load", "reduce"}

\* after an update that wrote a row, a run failed in its reduction and the
\* ledger still holds what the update wrote
C12_Witness ==
    /\ before.status = "ok"
    /\ last.status = "failed" /\ last.step = "reduce"
    /\ csv = prevCsv
    /\ RowsWithId(csv, BeforeKey) # {}
    /\ ThisKey \notin {DataLines(csv)[i].id : i \in 1..Len(DataLines(csv))}

\* the identifiers that have a row in a ledger file: those of the lines
\* after the first with at least 5 fields
RowIds(f) ==
    {DataLines(f)[i].id : i \in {k \in 1..Len(DataLines(f)) :
                                    WellFormed(DataLines(f)[k])}}

\* C14: rows are never deleted.  Every identifier that has a row in the
\* ledger before a run has a row in the ledger after it; over a sequence of
\* runs, an identifier that once had a row has one ever after.
C14_RowsNeverDeleted ==
    [][\A id \in RowIds(csv) : id \in RowIds(csv')]_vars

\* two updates of different rows of a ledger that had a third row before:
\* the three identifiers have a row
C14_Witness ==
    /\ before.status = "ok" /\ last.status = "ok"
    /\ ThisKey # BeforeKey
    /\ {ThisKey, BeforeKey} \subseteq RowIds(csv)
    /\ \E id \in RowIds(prevCsv) :
          id \notin {ThisKey, BeforeKey} /\ id \in RowIds(csv)

\* C18: ghosting ledger key collision.  Two runs of compute_ghosting in a
\* row with the same subject, session and reconstruction and different
\* acquisition regions update the same two cells of the one row
\* subject/session, and after the second the cells hold its values only.
C18_GhostingKeyCollision ==
    ( /\ script = "ghosting"
      /\ before.status = "ok" /\ last.status = "ok"
      /\ before.subject = last.subject /\ before.session = last.session
      /\ before.rec = last.rec
      /\ before.acq # last.acq ) =>
        LET id == last.subject \o "/" \o last.session
        IN  /\ Cardinality(RowsWithId(prevCsv, id)) = 1
            /\ Cardinality(RowsWithId(csv, id)) = 1
            /\ OwnCells(prevCsv, id, last.rec) =
                  << FormatFloat(Reduced[script, before.vol].a),
                     FormatFloat(Reduced[script, before.vol].b) >>
            /\ OwnCells(csv, id, last.rec) =
                  << FormatFloat(Reduced[script, last.vol].a),
                     FormatFloat(Reduced[script, last.vol].b) >>
            /\ \A acq \in AcqChoices :
                  RowsWithId(csv, id \o "/" \o acq) = {}

\* such two runs with different values: the values of the first are gone
C18_Witness ==
    /\ script = "ghosting"
    /\ before.status = "ok" /\ last.status = "ok"
    /\ before.subject = last.subject /\ before.session = last.session
    /\ before.rec = last.rec
    /\ before.acq # last.acq
    /\ Reduced[script, before.vol].b # Reduced[script, last.vol].b
    /\ OwnCells(csv, ThisKey, last.rec)[2] =
          FormatFloat(Reduced[script, last.vol].b)
    /\ OwnCells(prevCsv, ThisKey, last.rec)[2] =
          FormatFloat(Reduced[script, before.vol].b)

\* the two invocations are through
BothDone == proc # NoProc /\ \A p \in Procs : proc[p].pc = "done"

\* both have read before either has written; else one has read and written
\* before the other has read
Overlapped == Len(events) >= 2 /\ events[1][2] = "read" /\ events[2][2] = "read"

\* the invocation that wrote first, the one that wrote last
FirstWriter == IF Overlapped THEN events[3][1] ELSE events[2][1]

LastWriter == events[4][1]

ProcKey(p) ==
    proc[p].req.subject \o "/" \o proc[p].req.session \o
        (IF script = "ghosting" THEN "" ELSE "/" \o proc[p].req.acq)

\* the file holds the update of invocation p: its row with its two values
HasUpdate(f, p) ==
    /\ Cardinality(RowsWithId(f, ProcKey(p))) = 1
    /\ WellFormed(RowOf(f, ProcKey(p)))
    /\ OwnCells(f, ProcKey(p), proc[p].req.rec) =
          << FormatFloat(Reduced[script, proc[p].req.vol].a),
             FormatFloat(Reduced[script, proc[p].req.vol].b) >>

\* the file after invocation p alone has run write_csv on file f
AloneOn(f, p) ==
    write_csv(f, script, ProcKey(p), proc[p].req.rec,
              Reduced[script, proc[p].req.vol].a,
              Reduced[script, proc[p].req.vol].b)

\* the two invocations write different cells
DifferentCells ==
    ProcKey(1) # ProcKey(2) \/ proc[1].req.rec # proc[2].req.rec

\* C13: lost update under concurrency.  When both invocations have read
\* before either writes, the final file is the one the last writer alone
\* would have left and lacks the update of the first writer; when one runs
\* after the other, the final file holds both updates.
C13_LostUpdate ==
    BothDone =>
        /\ HasUpdate(csv, LastWriter)
        /\ Overlapped => csv = AloneOn(prevCsv, LastWriter)
        /\ ~Overlapped => csv = AloneOn(AloneOn(prevCsv, FirstWriter), LastWriter)
        /\ (Overlapped /\ DifferentCells /\ ~HasUpdate(prevCsv, FirstWriter)) =>
              ~HasUpdate(csv, FirstWriter)
        /\ (~Overlapped /\ DifferentCells) => HasUpdate(csv, FirstWriter)

\* the two invocations have updated different rows, both read first, and
\* the row of the first writer is not in the final file
C13_Witness ==
    /\ BothDone
    /\ Overlapped
    /\ ProcKey(1) # ProcKey(2)
    /\ HasUpdate(csv, LastWriter)
    /\ RowsWithId(csv, ProcKey(FirstWriter)) = {}

\* the run of create_ghosting_mask has got to the loop over the slices
AtMaskEnd == pc \in {"done", "name_error"}

\* the voxels of the saved mask on slice z, as <<x, y>>
SavedSlice(z) == {<<v[1], v[2]>> : v \in {w \in maskFile.voxels : w[3] = z}}

\* the rectangle of C15 for a landmark c: as many columns as 10 mm are in
\* pixels, around the column of c, and the rows before the row of c
OneCmRectangle(c) ==
    LET w == convert_mm_to_pix(width_mm, anat.pixdim)
    IN  {<<x, y>> : x \in {i \in 0..(anat.nx - 1) :
                              c[1] - (w \div 2) <= i /\ i < c[1] - (w \div 2) + w},
                    y \in 0..(c[2] - 1)}

\* C15 as stated: ghosting mask geometry.  On every slice with a landmark
\* the saved mask is 1 on exactly the rectangle that is 1 cm wide in x
\* around the landmark and spans y from 0 up to, not including, the
\* landmark.
C15_MaskGeometry ==
    pc = "done" =>
        \A z \in 0..(anat.nz - 1) :
            labels.tip.marks[z + 1] # {} =>
                \E c \in labels.tip.marks[z + 1] :
                    SavedSlice(z) = OneCmRectangle(c)

\* C16 as stated: producer/consumer path agreement.  The path of the mask
\* file create_ghosting_mask has saved is the path compute_ghosting loads
\* its mask from, for the same processed-data path, subject, session and
\* region.
C16_PathAgreement ==
    pc = "done" =>
        /\ maskFile.exists
        /\ maskFile.path =
              compute_ghosting_path_ghosting_mask(path_processed_data(cmd),
                                                  cmd.subject, cmd.session,
                                                  cmd.acq)

\* C17 as stated: mask generation completes for any landmark placement.  A
\* run that gets to the loop over the slices of an image with at least one
\* slice saves the mask, and the slices without a landmark are 0 in it.
C17_MaskAlwaysSaved ==
    (AtMaskEnd /\ anat.nz >= 1) =>
        /\ pc = "done"
        /\ maskFile.exists
        /\ \A z \in 0..(anat.nz - 1) :
              labels.tip.marks[z + 1] = {} => SavedSlice(z) = {}

\* the statements after the removal of the CSV sidecar
AfterCsvRemoval == pc \in {"create_json", "create_mask", "done", "name_error"}

\* what holds at every statement of a run of create_ghosting_mask
C19_Always ==
    /\ calls <= 1
    /\ pc = "tool_failed" => calls = 1
    /\ (pc # "" /\ labels.tip.exists /\ labels.tip.by = "tool") => calls = 1
    /\ AfterCsvRemoval => ~labels.csv

\* what holds of every statement the run executes
C19_Step ==
    /\ calls' # calls => ~labels.tip.exists
    /\ labels.tip.exists => labels'.tip = labels.tip
    /\ labels.json # "absent" => labels'.json = labels.json
    /\ pc \in {"check", "identify"} =>
          labels'.json = labels.json /\ maskFile' = maskFile
    /\ pc # "tool_failed"

\* C19: label sidecar protocol.  sct_get_centerline is invoked only when
\* the landmark file is absent, and at most once; a landmark file and a JSON
\* sidecar that exist are left as they are; after the removal step there is
\* no CSV sidecar; when the tool fails the run has written no JSON sidecar
\* and no mask, and takes no further step.
C19_SidecarProtocol == []C19_Always /\ [][C19_Step]_vars

\* a finished run that invoked the tool: the landmark file is the tool's,
\* the JSON sidecar that was there is kept, the CSV sidecar is gone
C19_Witness ==
    /\ pc = "done"
    /\ calls = 1
    /\ labels.tip.by = "tool"
    /\ labels.json = "kept"
    /\ ~labels.csv

====
